---- MODULE Spec2Model ----
(***************************************************************************)
(* Model of the MCP multi-server manager (src/mcp_manager.py): the process *)
(* registry (managed_processes, stopped_processes, configured_servers),    *)
(* the per-connection command handlers, the initial launch, the monitor    *)
(* loop, the signal handler and the child processes.                       *)
(*                                                                         *)
(* Threads.  The main thread runs main() (initial launch, monitor loop)    *)
(* and, when a signal is delivered, signal_handler.  Every accepted        *)
(* connection gets its own handler thread.  A `with process_lock:` block   *)
(* of a handler is one action (nothing else can touch the registry while   *)
(* it runs); the blocks of the main thread that loop over several servers  *)
(* are one action per server, with process_lock = "main" in between,       *)
(* because a signal delivered to the main thread inside them matters.      *)
(***************************************************************************)
EXTENDS Integers, Sequences, FiniteSets, TLC

\* ---------------------------------------------------------------- bounds
MaxAge == 1          \* a timestamp older than this many seconds reads "this or older"

\* ------------------------------------------------------ program constants
RESTART_DELAY_SECONDS == 5
MONITOR_INTERVAL_SECONDS == 1

\* --------------------------------------------------- ordered dictionaries
\* A Python dict keeps insertion order: a sequence of [key, val] entries
\* with distinct keys.
DictKeys(d) == { d[i].key : i \in 1..Len(d) }
DictHas(d, k) == \E i \in 1..Len(d) : d[i].key = k
DictGet(d, k) == d[CHOOSE i \in 1..Len(d) : d[i].key = k].val
DictSet(d, k, v) ==
    IF DictHas(d, k)
    THEN [i \in 1..Len(d) |-> IF d[i].key = k THEN [key |-> k, val |-> v] ELSE d[i]]
    ELSE Append(d, [key |-> k, val |-> v])
DictPop(d, k) == SelectSeq(d, LAMBDA e : e.key # k)

\* ------------------------------------------------------------ text helpers
\* A text is a sequence of one-character strings.
IsSpace(c) == c = " "

RECURSIVE LStrip(_)
LStrip(s) == IF s # <<>> /\ IsSpace(Head(s)) THEN LStrip(Tail(s)) ELSE s

RECURSIVE RStrip(_)
RStrip(s) ==
    IF s # <<>> /\ IsSpace(s[Len(s)]) THEN RStrip(SubSeq(s, 1, Len(s) - 1)) ELSE s

\* str.strip()
Strip(s) == RStrip(LStrip(s))

\* shlex.split(line): split on blanks; a double-quoted stretch belongs to the
\* token it occurs in, blanks included.  tok is the token being read, has
\* says whether a token has been begun, inq whether a quote is open.
RECURSIVE ShlexScan(_, _, _, _, _)
ShlexScan(s, toks, tok, has, inq) ==
    IF s = <<>>
    THEN IF has THEN Append(toks, tok) ELSE toks
    ELSE LET c == Head(s)
             r == Tail(s)
         IN  IF inq
             THEN IF c = "\"" THEN ShlexScan(r, toks, tok, TRUE, FALSE)
                  ELSE ShlexScan(r, toks, Append(tok, c), TRUE, TRUE)
             ELSE IF c = "\"" THEN ShlexScan(r, toks, tok, TRUE, TRUE)
                  ELSE IF IsSpace(c)
                       THEN IF has THEN ShlexScan(r, Append(toks, tok), <<>>, FALSE, FALSE)
                            ELSE ShlexScan(r, toks, tok, FALSE, FALSE)
                       ELSE ShlexScan(r, toks, Append(tok, c), TRUE, FALSE)

ShlexSplit(line) == ShlexScan(line, <<>>, <<>>, FALSE, FALSE)

\* ' '.join(command_list)
RECURSIVE JoinSpace(_)
JoinSpace(command_list) ==
    IF command_list = <<>> THEN <<>>
    ELSE IF Len(command_list) = 1 THEN Head(command_list)
    ELSE Head(command_list) \o <<" ">> \o JoinSpace(Tail(command_list))

\* hashlib.sha1(s).hexdigest()[:7] on the texts the model's files produce
Sha1Hex7(s) ==
    CASE s = <<"a", " ", "b">> -> "7dbde93"
      [] s = <<"b", " ", "a">> -> "9e4d346"
      [] s = <<"a">>           -> "86f7e43"
      [] s = <<"b">>           -> "e9d71f5"

get_id_from_command(command_list) == Sha1Hex7(JoinSpace(command_list))

\* ------------------------------------------------------ configuration file
LineAB     == <<"a", " ", "b">>
LineQuoted == <<"\"", "a", " ", "b", "\"">>
LineBA     == <<" ", "b", " ", " ", "a", " ">>
LineNote   == <<"#", " ", "a">>
LineBlank  == <<" ">>

IdAB == "7dbde93"
IdBA == "9e4d346"
ServerIDs == {IdAB, IdBA}

\* contents the configuration file can have
FileContents ==
    { <<LineAB>>,
      <<LineNote, LineQuoted, LineBlank, LineBA>>,
      <<LineBA>> }

\* the loop of load_servers_from_conf keeping the command of the first line
\* of an id
RECURSIVE LoadLines_FirstWins(_, _)
LoadLines_FirstWins(lines, servers) ==
    IF lines = <<>> THEN servers
    ELSE LET line == Strip(Head(lines))
         IN  IF line # <<>> /\ Head(line) # "#"
             THEN LET command_list == ShlexSplit(line)
                      server_id == get_id_from_command(command_list)
                  IN  LoadLines_FirstWins(Tail(lines),
                         IF DictHas(servers, server_id) THEN servers
                         ELSE DictSet(servers, server_id, command_list))
             ELSE LoadLines_FirstWins(Tail(lines), servers)

\* the loop of load_servers_from_conf over the lines of the file
RECURSIVE LoadLines(_, _)
LoadLines(lines, servers) ==
    IF lines = <<>> THEN servers
    ELSE LET line == Strip(Head(lines))
         IN  IF line # <<>> /\ Head(line) # "#"
             THEN LET command_list == ShlexSplit(line)
                      server_id == get_id_from_command(command_list)
                  IN  LoadLines(Tail(lines), DictSet(servers, server_id, command_list))
             ELSE LoadLines(Tail(lines), servers)

ParseConf(file) == LoadLines(file, <<>>)

\* load_servers_from_conf before it has read anything
NoConf == [pc |-> "idle", file |-> <<>>, servers |-> <<>>]

\* what load_servers_from_conf can come back with
LoadedServers == { ParseConf(conf_file) : conf_file \in FileContents }

\* ------------------------------------------------------------------ state
VARIABLES
    configured_servers,   \* dict server_id -> command_list
    managed_processes,    \* dict server_id -> [proc, command, start_time]
    stopped_processes,    \* dict server_id -> [command] (never iterated: a function)
    process_lock,         \* "free", or "main" while the main thread is inside a loop
    procs,                \* child processes by handle (Popen object): "running",
                          \* "signalled" (SIGTERM sent, not seen to exit), "exited"
    main_pc,              \* position of the main thread
    todo,                 \* initial launch: configured entries still to launch
    dead_server_ids,      \* monitor: dead ids still to handle in this tick
    info,                 \* monitor: the entry popped for Head(dead_server_ids)
    sock,                 \* SOCKET_PATH: "none", "listening", "removed"
    handlers,             \* connection handler threads
    call,                 \* tools.py: an activation of send_command_to_manager
    ctl,                  \* tools.py: an activation of execute_systemctl_command
    conf                  \* an activation of load_servers_from_conf on a given file

vars == << configured_servers, managed_processes, stopped_processes, process_lock,
           procs, main_pc, todo, dead_server_ids, info, sock, handlers, call, ctl, conf >>

\* the MCP tool process (src/mcp/tools.py) is another process than the manager
ManagerFrame ==
    UNCHANGED << configured_servers, managed_processes, stopped_processes, process_lock,
                 procs, main_pc, todo, dead_server_ids, info, sock, handlers, conf >>

\* the connection handler threads that can be alive at the same time
Handlers == {1, 2}
NoPayload == "None"
\* the payloads `not server_id` is true of: none at all, and the empty text
Falsy == {NoPayload, ""}
Payloads == ServerIDs \cup Falsy
NoInfo == [proc |-> 0, command |-> <<>>, start_time |-> 0]
NoResponse == [status |-> "none", message |-> "", started |-> 0, errors |-> 0,
               payload |-> <<>>]
IdleHandler == [pc |-> "idle", command |-> "", server_id |-> NoPayload,
                servers |-> <<>>, response |-> NoResponse]

\* A handler that has its answer (or its exception) is about to write to its
\* own connection and end.  That step touches nothing shared, so it is taken
\* before anything else happens: no behaviour of the registry is lost, and the
\* state in which a handler holds an answer is the state in which it released
\* the lock.
Replying == \E i \in Handlers : handlers[i].pc \in {"send", "except"}

\* --------------------------------------------------------------------- time
\* Timestamps are kept relative to the present: datetime.now() is 0, a start
\* time of -k is k seconds ago, and -MaxAge is MaxAge seconds ago or earlier.
\* Time passes in the sleeps of the monitor loop.
Now == 0

Earlier(t, seconds) == IF t - seconds < 0 - MaxAge THEN 0 - MaxAge ELSE t - seconds

\* the registry as it reads after time.sleep(seconds)
Sleep(managed, seconds) ==
    [i \in 1..Len(managed) |->
        [managed[i] EXCEPT !.val.start_time = Earlier(@, seconds)]]

\* ------------------------------------------------------- child processes
\* The process table holds the processes somebody has a handle of: one per
\* registry entry, and the one the monitor has popped and not yet replaced.
ProcHandles == 1..(Cardinality(ServerIDs) + 1)

\* the handle of the next child process: the first one not in use
NewProc(ps) ==
    CHOOSE p \in ProcHandles : p \notin DOMAIN ps /\ \A q \in 1..(p - 1) : q \in DOMAIN ps

\* subprocess.Popen(command): a new handle, the process running
Popen(ps) == [p \in DOMAIN ps \cup {NewProc(ps)} |-> IF p \in DOMAIN ps THEN ps[p] ELSE "running"]

\* proc.poll() is not None
Exited(ps, p) == ps[p] = "exited"

\* proc.terminate(): SIGTERM unless the process is already gone
Terminate(ps, p) == IF ps[p] # "exited" THEN [ps EXCEPT ![p] = "signalled"] ELSE ps

\* the processes the registry or the monitor holds a handle of
Tracked(managed, popped) ==
    { managed[i].val.proc : i \in 1..Len(managed) } \cup ({popped.proc} \ {0})

\* A process nobody holds a handle of any more is beyond the supervisor's
\* reach, whatever its state: it leaves the table.
Reap(ps, managed, popped) ==
    [p \in DOMAIN ps \cap Tracked(managed, popped) |-> ps[p]]

\* the registry entry written after a successful launch
Entry(p, command, t) == [proc |-> p, command |-> command, start_time |-> t]

\* --------------------------------------------------------------- responses
\* {'status': status, 'message': message}; the id a message quotes is the
\* request's own payload and is left out
Response(status, message) ==
    [status |-> status, message |-> message, started |-> 0, errors |-> 0,
     payload |-> <<>>]

ApplyResponse(started_count, error_count) ==
    [status |-> IF error_count > 0 THEN "error" ELSE "ok",
     message |-> "Configuration applied.",
     started |-> started_count, errors |-> error_count, payload |-> <<>>]

\* format_uptime: str(timedelta(seconds=int(seconds))) as <<days, h, m, s>>
format_uptime(seconds) ==
    IF seconds < 0 THEN <<0, 0, 0, 0>>
    ELSE << seconds \div 86400, (seconds % 86400) \div 3600,
            (seconds % 3600) \div 60, seconds % 60 >>

\* StatusEntry looking at the stopped marker before the running set
StatusEntry_MarkerFirst(sid, cmd_list, managed, stopped) ==
    IF sid \in DOMAIN stopped
    THEN [id |-> sid, status |-> "Stopped", pid |-> "N/A", uptime |-> "N/A",
          command |-> JoinSpace(cmd_list)]
    ELSE IF DictHas(managed, sid)
    THEN [id |-> sid, status |-> "Running", pid |-> DictGet(managed, sid).proc,
          uptime |-> format_uptime(Now - DictGet(managed, sid).start_time),
          command |-> JoinSpace(cmd_list)]
    ELSE [id |-> sid, status |-> "Idle", pid |-> "N/A", uptime |-> "N/A",
          command |-> JoinSpace(cmd_list)]

\* StatusEntry asking the process whether it is alive: a dead one is not
\* reported as running
StatusEntry_Polls(sid, cmd_list, managed, stopped) ==
    IF DictHas(managed, sid) /\ ~Exited(procs, DictGet(managed, sid).proc)
    THEN [id |-> sid, status |-> "Running", pid |-> DictGet(managed, sid).proc,
          uptime |-> format_uptime(Now - DictGet(managed, sid).start_time),
          command |-> JoinSpace(cmd_list)]
    ELSE IF sid \in DOMAIN stopped
    THEN [id |-> sid, status |-> "Stopped", pid |-> "N/A", uptime |-> "N/A",
          command |-> JoinSpace(cmd_list)]
    ELSE [id |-> sid, status |-> "Idle", pid |-> "N/A", uptime |-> "N/A",
          command |-> JoinSpace(cmd_list)]

\* one entry of the status listing
StatusEntry(sid, cmd_list, managed, stopped) ==
    IF DictHas(managed, sid)
    THEN [id |-> sid, status |-> "Running", pid |-> DictGet(managed, sid).proc,
          uptime |-> format_uptime(Now - DictGet(managed, sid).start_time),
          command |-> JoinSpace(cmd_list)]
    ELSE IF sid \in DOMAIN stopped
    THEN [id |-> sid, status |-> "Stopped", pid |-> "N/A", uptime |-> "N/A",
          command |-> JoinSpace(cmd_list)]
    ELSE [id |-> sid, status |-> "Idle", pid |-> "N/A", uptime |-> "N/A",
          command |-> JoinSpace(cmd_list)]

\* StatusList over the running set as well as the configuration
StatusList_WithRunning(configured, managed, stopped) ==
    LET all == configured \o SelectSeq(managed, LAMBDA e : ~DictHas(configured, e.key))
    IN  [i \in 1..Len(all) |->
           StatusEntry(all[i].key,
                       IF i <= Len(configured) THEN all[i].val ELSE all[i].val.command,
                       managed, stopped)]

\* the process_list built by the status command
StatusList(configured, managed, stopped) ==
    [i \in 1..Len(configured) |->
        StatusEntry(configured[i].key, configured[i].val, managed, stopped)]

StatusResponse(configured, managed, stopped) ==
    [status |-> "ok", message |-> "", started |-> 0, errors |-> 0,
     payload |-> StatusList(configured, managed, stopped)]

\* stopped_processes.pop(server_id, None)
StoppedPop(stopped, sid) == [k \in (DOMAIN stopped) \ {sid} |-> stopped[k]]

\* stopped_processes[server_id] = {'command': command}
StoppedSet(stopped, sid, command) ==
    [k \in (DOMAIN stopped) \cup {sid} |->
        IF k = sid THEN [command |-> command] ELSE stopped[k]]

\* ------------------------------------------------- tools.py: the client side
\* The bytes of a response as far as json.loads tells them apart: the braces
\* of an object and what stands between them.  The manager writes
\* json.dumps of a dict and nothing else (line 150 of mcp_manager.py).
Bytes == {"{", "m", "}"}

MAX_BUFFER_SIZE == 3      \* bytes buffered at most (65536 in the source)
MaxChunk == 2             \* bytes one recv returns at most (4096 in the source)

\* what one sock.recv(4096) can return when it returns data
Chunks == UNION { [1..n -> Bytes] : n \in 1..MaxChunk }

\* json.loads(response_data.decode('utf-8')) returns: the text is one object
JsonLoads(data) ==
    /\ Len(data) >= 2
    /\ data[1] = "{" /\ data[Len(data)] = "}"
    /\ \A k \in 2..(Len(data) - 1) : data[k] = "m"

NoResult == [status |-> "none", message |-> "", body |-> <<>>]
ErrorResult(error_msg) == [status |-> "error", message |-> error_msg, body |-> <<>>]
\* the dict json.loads made of the response
Received(data) == [status |-> "received", message |-> "", body |-> data]

\* request = {"command": command}; the payload is added `if payload`
Request(command, payload) ==
    [command |-> command, payload |-> IF payload \in Falsy THEN NoPayload ELSE payload]

NoCall == [pc |-> "idle", command |-> "", payload |-> NoPayload, sock |-> "None",
           request |-> Request("", NoPayload), response_data |-> <<>>, exc |-> "None",
           result |-> NoResult]

\* the subclasses of Exception the statements of the try block raise
Exceptions == {"socket.timeout", "ConnectionRefusedError", "FileNotFoundError", "OSError",
               "ValueError", "JSONDecodeError"}

\* the except clauses without the last one
Caught_NoCatchAll(exc) ==
    IF exc = "socket.timeout" THEN ErrorResult("Timeout communicating with manager")
    ELSE IF exc = "ConnectionRefusedError" THEN ErrorResult("MCP manager is not running")
    ELSE IF exc = "FileNotFoundError" THEN ErrorResult("MCP manager socket not found")
    ELSE NoResult

\* the except clauses of lines 83-98, in their order; NoResult: none applies
Caught(exc) ==
    IF exc = "socket.timeout" THEN ErrorResult("Timeout communicating with manager")
    ELSE IF exc = "ConnectionRefusedError" THEN ErrorResult("MCP manager is not running")
    ELSE IF exc = "FileNotFoundError" THEN ErrorResult("MCP manager socket not found")
    ELSE IF exc \in Exceptions THEN ErrorResult("Failed to communicate with manager")
    ELSE NoResult

\* finally: if sock: sock.close()
Finally(c) == IF c.sock = "open" THEN [c EXCEPT !.sock = "closed"] ELSE c

\* a statement of the try block raises exc: the matching except clause makes
\* the result, or the exception leaves the function; finally runs either way
Raise(c, exc) ==
    Finally([c EXCEPT !.exc = exc, !.result = Caught(exc),
                      !.pc = IF Caught(exc) = NoResult THEN "raised" ELSE "returned"])

\* ------------------------------------------------------ tools.py: systemctl
ALLOWED_SYSTEMCTL_OPERATIONS ==
    {"status", "start", "stop", "restart", "reload", "enable", "disable"}

\* a service name is put together from these pieces, at most MaxName of them
MaxName == 3
NamePieces == {"a", ".", ".service", "/", "\n"}

Chars(piece) ==
    IF piece = ".service" THEN << ".", "s", "e", "r", "v", "i", "c", "e" >> ELSE << piece >>

RECURSIVE Flatten(_)
Flatten(pieces) == IF pieces = <<>> THEN <<>> ELSE Chars(Head(pieces)) \o Flatten(Tail(pieces))

ServiceNames == { Flatten(p) : p \in UNION { [1..n -> NamePieces] : n \in 0..MaxName } }

\* [a-zA-Z0-9._-], as far as the pieces go
InClass(c) == c \in {"a", "s", "e", "r", "v", "i", "c", "."}

\* `$` matches at the end of the text and before a newline that ends it
BeforeDollar(text) ==
    IF text # <<>> /\ text[Len(text)] = "\n"
    THEN {text, SubSeq(text, 1, Len(text) - 1)} ELSE {text}

\* [a-zA-Z0-9._-]+ matches all of w
ClassPlus(w) == w # <<>> /\ \A k \in 1..Len(w) : InClass(w[k])

\* re.match(r'^[a-zA-Z0-9._-]+\.service$|^[a-zA-Z0-9._-]+$', service_name)
ReMatch(service_name) ==
    \E w \in BeforeDollar(service_name) :
       \/ /\ Len(w) > 8
          /\ SubSeq(w, Len(w) - 7, Len(w)) = Chars(".service")
          /\ ClassPlus(SubSeq(w, 1, Len(w) - 8))
       \/ ClassPlus(w)

\* any(char in service_name for char in dangerous_chars); the list also has
\* the backquote, which is none of the pieces
Dangerous(service_name) ==
    \/ \E k \in 1..(Len(service_name) - 1) : service_name[k] = "." /\ service_name[k + 1] = "."
    \/ \E k \in 1..Len(service_name) :
          service_name[k] \in {"/", "\\", ";", "&", "|", "$", "(", ")"}

validate_service_name(service_name) ==
    IF ~ReMatch(service_name) THEN FALSE ELSE ~Dangerous(service_name)

is_privileged_operation(operation) ==
    operation \in {"start", "stop", "restart", "reload", "enable", "disable"}

NoCtl == [pc |-> "idle", operation |-> "", service_name |-> <<>>, cmd |-> <<>>,
          result |-> NoResult]

\* what subprocess.run(cmd, ...) comes to
RunOutcomes == {"exit 0", "exit 1", "TimeoutExpired", "FileNotFoundError", "Exception"}

\* lines 139-177: the command line, and the result made of the outcome
Run(operation, service_name, root, outcome) ==
    [pc |-> "returned", operation |-> operation, service_name |-> service_name,
     cmd |-> (IF is_privileged_operation(operation) /\ ~root THEN << "sudo" >> ELSE << >>)
                \o << "systemctl", operation, service_name >>,
     result |-> CASE outcome = "exit 0" -> [status |-> "ok", message |-> "", body |-> << 0 >>]
                  [] outcome = "exit 1" -> [status |-> "error", message |-> "", body |-> << 1 >>]
                  [] outcome = "TimeoutExpired" -> ErrorResult("Command timeout")
                  [] outcome = "FileNotFoundError" -> ErrorResult("systemctl command not found")
                  [] OTHER -> ErrorResult("str(e)")]

Refused(operation, service_name, error_msg) ==
    [pc |-> "returned", operation |-> operation, service_name |-> service_name,
     cmd |-> << >>, result |-> ErrorResult(error_msg)]

\* execute_systemctl_command testing the name before the operation
execute_systemctl_command_NameFirst(operation, service_name, root, outcome) ==
    IF ~validate_service_name(service_name)
    THEN Refused(operation, service_name, "Invalid service name")
    ELSE IF operation \notin ALLOWED_SYSTEMCTL_OPERATIONS
    THEN Refused(operation, service_name, "Operation not allowed")
    ELSE Run(operation, service_name, root, outcome)

execute_systemctl_command(operation, service_name, root, outcome) ==
    IF operation \notin ALLOWED_SYSTEMCTL_OPERATIONS
    THEN Refused(operation, service_name, "Operation not allowed")
    ELSE IF ~validate_service_name(service_name)
    THEN Refused(operation, service_name, "Invalid service name")
    ELSE Run(operation, service_name, root, outcome)

\* -------------------------------------------------------------------- Init
\* main() up to line 199: the file has been loaded into configured_servers,
\* the socket thread has been started, nothing has been launched yet.
Init ==
    /\ configured_servers \in LoadedServers
    /\ managed_processes = <<>>
    /\ stopped_processes = <<>>
    /\ process_lock = "free"
    /\ procs = <<>>
    /\ main_pc = "boot"
    /\ todo = <<>>
    /\ dead_server_ids = <<>>
    /\ info = NoInfo
    /\ sock = "none"
    /\ handlers = [i \in Handlers |-> IdleHandler]
    /\ call = NoCall
    /\ ctl = NoCtl
    /\ conf = NoConf

\* -------------------------------------------------------------- environment
\* a child process exits, on its own or killed (with or without our SIGTERM)
ProcExit(p) ==
    /\ ~Replying
    /\ procs[p] # "exited"
    /\ procs' = Reap([procs EXCEPT ![p] = "exited"], managed_processes, info)
    /\ UNCHANGED << configured_servers, managed_processes, stopped_processes,
                    process_lock, main_pc, todo, dead_server_ids, info, sock,
                    handlers, call, ctl, conf >>

\* ------------------------------------------------------------ socket thread
\* the interpreter is gone once main has exited and no handler thread is left
ProcessGone == main_pc = "exited" /\ \A i \in Handlers : handlers[i].pc = "idle"

\* socket_server_thread: bind and listen
SocketBind ==
    /\ ~Replying
    /\ sock = "none"
    /\ ~ProcessGone
    /\ sock' = "listening"
    /\ UNCHANGED << configured_servers, managed_processes, stopped_processes,
                    process_lock, procs, main_pc, todo, dead_server_ids, info,
                    handlers, call, ctl, conf >>

\* a connection made to the listening socket is accepted and gets a thread
CanAccept(i) == handlers[i].pc = "idle" /\ sock # "none" /\ ~ProcessGone

\* ------------------------------------------------------- command handlers
HandlerFrame ==
    UNCHANGED << process_lock, main_pc, todo, dead_server_ids, info, sock, call, ctl, conf >>

\* Handler threads have no identity of their own (one anonymous Thread per
\* accepted connection, line 163): which slot a thread occupies carries no
\* information, so the slots are kept in the order of Weight.
Weight(h) ==
    (CASE h.pc = "idle" -> 0 [] h.pc = "op" -> 1 [] h.pc = "apply_set" -> 2
       [] h.pc = "apply_loop" -> 3 [] h.pc = "send" -> 4 [] h.pc = "except" -> 5) * 1000
    + (CASE h.command = "start" -> 1 [] h.command = "stop" -> 2
         [] h.command = "restart" -> 3 [] OTHER -> 0) * 100
    + (CASE h.server_id = IdAB -> 1 [] h.server_id = IdBA -> 2 [] OTHER -> 0) * 10
    + Len(h.servers) * 2
    + (IF h.servers # <<>> /\ Len(Head(h.servers).val) = 1 THEN 1 ELSE 0)

Arrange(hs) == IF Weight(hs[2]) < Weight(hs[1]) THEN [i \in Handlers |-> hs[3 - i]] ELSE hs

\* thread i goes on as h
Become(i, h) == Arrange([handlers EXCEPT ![i] = h])

Reply(i, response) ==
    Become(i, [IdleHandler EXCEPT !.pc = "send", !.response = response])

\* a non-empty request that json.loads rejects (malformed text, or text cut
\* at the 1024 bytes of recv), or one that is JSON but no object, so that
\* request.get raises: control passes to the except clause of line 151
HBadRequest(i) ==
    /\ ~Replying
    /\ CanAccept(i)
    /\ handlers' = Become(i, [IdleHandler EXCEPT !.pc = "except"])
    /\ UNCHANGED << configured_servers, managed_processes, stopped_processes, procs >>
    /\ HandlerFrame

\* command == 'status'
HStatus(i) ==
    /\ ~Replying
    /\ CanAccept(i)
    /\ process_lock = "free"
    /\ handlers' = Reply(i, StatusResponse(configured_servers, managed_processes,
                                           stopped_processes))
    /\ UNCHANGED << configured_servers, managed_processes, stopped_processes, procs >>
    /\ HandlerFrame

\* a command that is none of the five
HUnknown(i) ==
    /\ ~Replying
    /\ CanAccept(i)
    /\ handlers' = Reply(i, Response("error", "Unknown command."))
    /\ UNCHANGED << configured_servers, managed_processes, stopped_processes, procs >>
    /\ HandlerFrame

\* HCheck letting an id pass that is in the running set though not configured
HCheck_AllowsRunning(i, command, server_id) ==
    /\ ~Replying
    /\ CanAccept(i)
    /\ handlers' =
          IF server_id \in Falsy
             \/ (~DictHas(configured_servers, server_id)
                 /\ ~DictHas(managed_processes, server_id))
          THEN Reply(i, Response("error", "is not a valid ID."))
          ELSE Become(i, [IdleHandler EXCEPT !.pc = "op", !.command = command,
                                             !.server_id = server_id])
    /\ UNCHANGED << configured_servers, managed_processes, stopped_processes, procs >>
    /\ HandlerFrame

\* start, stop, restart: the id check of line 88, made before the lock is taken
HCheck(i, command, server_id) ==
    /\ ~Replying
    /\ CanAccept(i)
    /\ handlers' =
          IF server_id \in Falsy \/ ~DictHas(configured_servers, server_id)
          THEN Reply(i, Response("error", "is not a valid ID."))
          ELSE Become(i, [IdleHandler EXCEPT !.pc = "op", !.command = command,
                                             !.server_id = server_id])
    /\ UNCHANGED << configured_servers, managed_processes, stopped_processes, procs >>
    /\ HandlerFrame

\* HStop leaving a stopped marker for an id it finds not running
HStop_MarksAnyway(i) ==
    LET server_id == handlers[i].server_id IN
    /\ ~Replying
    /\ handlers[i].pc = "op" /\ handlers[i].command = "stop"
    /\ process_lock = "free"
    /\ IF DictHas(managed_processes, server_id)
       THEN LET proc_info == DictGet(managed_processes, server_id) IN
            /\ managed_processes' = DictPop(managed_processes, server_id)
            /\ procs' = Reap(Terminate(procs, proc_info.proc), managed_processes', info)
            /\ stopped_processes' = StoppedSet(stopped_processes, server_id, proc_info.command)
            /\ handlers' = Reply(i, Response("ok", "has been stopped."))
       ELSE /\ handlers' = Reply(i, Response("error", "is not running."))
            /\ stopped_processes' = StoppedSet(stopped_processes, server_id, <<>>)
            /\ UNCHANGED << managed_processes, procs >>
    /\ UNCHANGED configured_servers
    /\ HandlerFrame

\* command == 'stop', lines 91-99
HStop(i) ==
    LET server_id == handlers[i].server_id IN
    /\ ~Replying
    /\ handlers[i].pc = "op" /\ handlers[i].command = "stop"
    /\ process_lock = "free"
    /\ IF DictHas(managed_processes, server_id)
       THEN LET proc_info == DictGet(managed_processes, server_id) IN
            /\ managed_processes' = DictPop(managed_processes, server_id)
            /\ procs' = Reap(Terminate(procs, proc_info.proc), managed_processes', info)
            /\ stopped_processes' = StoppedSet(stopped_processes, server_id, proc_info.command)
            /\ handlers' = Reply(i, Response("ok", "has been stopped."))
       ELSE /\ handlers' = Reply(i, Response("error", "is not running."))
            /\ UNCHANGED << managed_processes, procs, stopped_processes >>
    /\ UNCHANGED configured_servers
    /\ HandlerFrame

\* HStart without line 105: the stopped marker is kept
HStart_KeepsMarker(i) ==
    LET server_id == handlers[i].server_id IN
    /\ ~Replying
    /\ handlers[i].pc = "op" /\ handlers[i].command = "start"
    /\ process_lock = "free"
    /\ IF DictHas(managed_processes, server_id)
       THEN /\ handlers' = Reply(i, Response("error", "is already running."))
            /\ UNCHANGED << managed_processes, procs >>
       ELSE IF ~DictHas(configured_servers, server_id)
       THEN /\ handlers' = Become(i, [IdleHandler EXCEPT !.pc = "except"])
            /\ UNCHANGED << managed_processes, procs >>
       ELSE LET command_to_run == DictGet(configured_servers, server_id) IN
            \E new_proc \in BOOLEAN :
                 IF new_proc
                 THEN /\ procs' = Popen(procs)
                      /\ managed_processes' = DictSet(managed_processes, server_id,
                             Entry(NewProc(procs), command_to_run, Now))
                      /\ handlers' = Reply(i, Response("ok", "has been started."))
                 ELSE /\ handlers' = Reply(i, Response("error", "Failed to start"))
                      /\ UNCHANGED << managed_processes, procs >>
    /\ UNCHANGED << configured_servers, stopped_processes >>
    /\ HandlerFrame

\* HStart clearing the stopped marker only once the launch has succeeded
HStart_PopsOnSuccess(i) ==
    LET server_id == handlers[i].server_id IN
    /\ ~Replying
    /\ handlers[i].pc = "op" /\ handlers[i].command = "start"
    /\ process_lock = "free"
    /\ IF DictHas(managed_processes, server_id)
       THEN /\ handlers' = Reply(i, Response("error", "is already running."))
            /\ UNCHANGED << managed_processes, procs, stopped_processes >>
       ELSE IF ~DictHas(configured_servers, server_id)
       THEN /\ handlers' = Become(i, [IdleHandler EXCEPT !.pc = "except"])
            /\ UNCHANGED << managed_processes, procs, stopped_processes >>
       ELSE LET command_to_run == DictGet(configured_servers, server_id) IN
            \E new_proc \in BOOLEAN :
                 IF new_proc
                 THEN /\ stopped_processes' = StoppedPop(stopped_processes, server_id)
                      /\ procs' = Popen(procs)
                      /\ managed_processes' = DictSet(managed_processes, server_id,
                             Entry(NewProc(procs), command_to_run, Now))
                      /\ handlers' = Reply(i, Response("ok", "has been started."))
                 ELSE /\ handlers' = Reply(i, Response("error", "Failed to start"))
                      /\ UNCHANGED << managed_processes, procs, stopped_processes >>
    /\ UNCHANGED configured_servers
    /\ HandlerFrame

\* command == 'start', lines 101-113; configured_servers[server_id] raises
\* KeyError when the id has left the configuration since the check
HStart(i) ==
    LET server_id == handlers[i].server_id IN
    /\ ~Replying
    /\ handlers[i].pc = "op" /\ handlers[i].command = "start"
    /\ process_lock = "free"
    /\ IF DictHas(managed_processes, server_id)
       THEN /\ handlers' = Reply(i, Response("error", "is already running."))
            /\ UNCHANGED << managed_processes, procs, stopped_processes >>
       ELSE IF ~DictHas(configured_servers, server_id)
       THEN /\ handlers' = Become(i, [IdleHandler EXCEPT !.pc = "except"])
            /\ UNCHANGED << managed_processes, procs, stopped_processes >>
       ELSE LET command_to_run == DictGet(configured_servers, server_id) IN
            /\ stopped_processes' = StoppedPop(stopped_processes, server_id)
            /\ \E new_proc \in BOOLEAN :
                 IF new_proc
                 THEN /\ procs' = Popen(procs)
                      /\ managed_processes' = DictSet(managed_processes, server_id,
                             Entry(NewProc(procs), command_to_run, Now))
                      /\ handlers' = Reply(i, Response("ok", "has been started."))
                 ELSE /\ handlers' = Reply(i, Response("error", "Failed to start"))
                      /\ UNCHANGED << managed_processes, procs >>
    /\ UNCHANGED configured_servers
    /\ HandlerFrame

\* HRestart taking the id out of the running set
HRestart_Pops(i) ==
    LET server_id == handlers[i].server_id IN
    /\ ~Replying
    /\ handlers[i].pc = "op" /\ handlers[i].command = "restart"
    /\ process_lock = "free"
    /\ IF DictHas(managed_processes, server_id)
       THEN /\ managed_processes' = DictPop(managed_processes, server_id)
            /\ procs' = Reap(Terminate(procs, DictGet(managed_processes, server_id).proc),
                             managed_processes', info)
            /\ handlers' = Reply(i, Response("ok", "Restart requested"))
       ELSE /\ handlers' = Reply(i, Response("error", "is not running."))
            /\ UNCHANGED << managed_processes, procs >>
    /\ UNCHANGED << configured_servers, stopped_processes >>
    /\ HandlerFrame

\* command == 'restart', lines 115-122
HRestart(i) ==
    LET server_id == handlers[i].server_id IN
    /\ ~Replying
    /\ handlers[i].pc = "op" /\ handlers[i].command = "restart"
    /\ process_lock = "free"
    /\ IF DictHas(managed_processes, server_id)
       THEN /\ procs' = Terminate(procs, DictGet(managed_processes, server_id).proc)
            /\ handlers' = Reply(i, Response("ok", "Restart requested"))
       ELSE /\ handlers' = Reply(i, Response("error", "is not running."))
            /\ UNCHANGED procs
    /\ UNCHANGED << configured_servers, managed_processes, stopped_processes >>
    /\ HandlerFrame

\* command == 'apply': load_servers_from_conf reads and parses the file, whatever
\* the operator has last written to it (lines 44-53)
HApplyLoad(i) ==
    /\ ~Replying
    /\ CanAccept(i)
    /\ \E servers \in LoadedServers : handlers' =
          Become(i, [IdleHandler EXCEPT !.pc = "apply_set", !.command = "apply",
                                        !.servers = servers])
    /\ UNCHANGED << configured_servers, managed_processes, stopped_processes, procs >>
    /\ HandlerFrame

\* ... and then stores the result under the lock (lines 57-58); the thread
\* keeps what it has loaded
HApplySet(i) ==
    /\ ~Replying
    /\ handlers[i].pc = "apply_set"
    /\ process_lock = "free"
    /\ configured_servers' = handlers[i].servers
    /\ handlers' = Become(i, [handlers[i] EXCEPT !.pc = "apply_loop"])
    /\ UNCHANGED << managed_processes, stopped_processes, procs >>
    /\ HandlerFrame

\* ApplyLoop without the test of line 133: what is running is launched anew
RECURSIVE ApplyLoop_Relaunch(_, _, _)
ApplyLoop_Relaunch(items, oks, st) ==
    IF items = <<>> THEN st
    ELSE LET server_id == Head(items).key
             command_to_run == Head(items).val
             stopped == StoppedPop(st.stopped, server_id)
         IN  IF server_id \in oks
             THEN ApplyLoop_Relaunch(Tail(items), oks,
                    [st EXCEPT !.stopped = stopped,
                               !.procs = Popen(st.procs),
                               !.managed = DictSet(st.managed, server_id,
                                   Entry(NewProc(st.procs), command_to_run, Now)),
                               !.started = st.started + 1])
             ELSE ApplyLoop_Relaunch(Tail(items), oks,
                    [st EXCEPT !.stopped = stopped, !.errors = st.errors + 1])

\* the loop of lines 132-143 over items, an entry at a time; oks are the ids
\* whose launch succeeds; st carries the registry and the two counters
RECURSIVE ApplyLoop(_, _, _)
ApplyLoop(items, oks, st) ==
    IF items = <<>> THEN st
    ELSE LET server_id == Head(items).key
             command_to_run == Head(items).val
         IN  IF ~DictHas(st.managed, server_id)
             THEN LET stopped == StoppedPop(st.stopped, server_id) IN
                  IF server_id \in oks
                  THEN ApplyLoop(Tail(items), oks,
                         [st EXCEPT !.stopped = stopped,
                                    !.procs = Popen(st.procs),
                                    !.managed = DictSet(st.managed, server_id,
                                        Entry(NewProc(st.procs), command_to_run, Now)),
                                    !.started = st.started + 1])
                  ELSE ApplyLoop(Tail(items), oks,
                         [st EXCEPT !.stopped = stopped, !.errors = st.errors + 1])
             ELSE ApplyLoop(Tail(items), oks, st)

\* lines 128-148: launch what is configured and not running, count, answer
HApplyLoop(i) ==
    /\ ~Replying
    /\ handlers[i].pc = "apply_loop"
    /\ process_lock = "free"
    /\ \E oks \in SUBSET DictKeys(configured_servers) :
         LET st == ApplyLoop(configured_servers, oks,
                       [managed |-> managed_processes, stopped |-> stopped_processes,
                        procs |-> procs, started |-> 0, errors |-> 0])
         IN  /\ managed_processes' = st.managed
             /\ stopped_processes' = st.stopped
             /\ procs' = st.procs
             /\ handlers' = Reply(i, ApplyResponse(st.started, st.errors))
    /\ UNCHANGED configured_servers
    /\ HandlerFrame

\* conn.sendall(response); conn.close()
HSend(i) ==
    /\ handlers[i].pc = "send"
    /\ handlers' = Become(i, IdleHandler)
    /\ UNCHANGED << configured_servers, managed_processes, stopped_processes, procs >>
    /\ HandlerFrame

\* except Exception: the error is printed, nothing is sent; conn.close()
HExcept(i) ==
    /\ handlers[i].pc = "except"
    /\ handlers' = Become(i, IdleHandler)
    /\ UNCHANGED << configured_servers, managed_processes, stopped_processes, procs >>
    /\ HandlerFrame

\* -------------------------------------------------------------- main thread
MainFrame == UNCHANGED << configured_servers, sock, handlers, call, ctl, conf >>

\* line 201-202: take the lock, begin the loop over configured_servers
InitBegin ==
    /\ ~Replying
    /\ main_pc = "boot"
    /\ process_lock = "free"
    /\ IF configured_servers = <<>>
       THEN main_pc' = "sleep" /\ UNCHANGED << process_lock, todo >>
       ELSE main_pc' = "init_loop" /\ process_lock' = "main" /\ todo' = configured_servers
    /\ UNCHANGED << managed_processes, stopped_processes, procs, dead_server_ids, info >>
    /\ MainFrame

\* lines 203-205 for one configured entry; the lock is released after the last
InitLaunchOne ==
    /\ ~Replying
    /\ main_pc = "init_loop"
    /\ LET server_id == Head(todo).key
           command == Head(todo).val
       IN  \E proc \in BOOLEAN :
             IF proc
             THEN /\ managed_processes' = DictSet(managed_processes, server_id,
                         Entry(NewProc(procs), command, Now))
                  /\ procs' = Reap(Popen(procs), managed_processes', info)
             ELSE UNCHANGED << managed_processes, procs >>
    /\ todo' = Tail(todo)
    /\ IF Tail(todo) = <<>>
       THEN main_pc' = "sleep" /\ process_lock' = "free"
       ELSE UNCHANGED << main_pc, process_lock >>
    /\ UNCHANGED << stopped_processes, dead_server_ids, info >>
    /\ MainFrame

\* line 210: the ids of managed_processes whose process has exited, in dict order
DeadServerIds(managed, ps) ==
    LET dead == SelectSeq(managed, LAMBDA e : Exited(ps, e.val.proc))
    IN  [i \in 1..Len(dead) |-> dead[i].key]

\* lines 208-210: sleep the interval, take the lock, collect the dead ids
MonitorScan ==
    /\ ~Replying
    /\ main_pc = "sleep"
    /\ process_lock = "free"
    /\ managed_processes' = Sleep(managed_processes, MONITOR_INTERVAL_SECONDS)
    /\ dead_server_ids' = DeadServerIds(managed_processes, procs)
    /\ IF DeadServerIds(managed_processes, procs) = <<>>
       THEN UNCHANGED << main_pc, process_lock >>
       ELSE main_pc' = "mon_loop" /\ process_lock' = "main"
    /\ UNCHANGED << stopped_processes, procs, todo, info >>
    /\ MainFrame

\* MonitorPop without the test of line 216: every dead id is relaunched
MonitorPop_AnyDead ==
    /\ ~Replying
    /\ main_pc = "mon_loop"
    /\ managed_processes' = DictPop(managed_processes, Head(dead_server_ids))
    /\ info' = DictGet(managed_processes, Head(dead_server_ids))
    /\ main_pc' = "mon_delay"
    /\ procs' = Reap(procs, managed_processes', info')
    /\ UNCHANGED << dead_server_ids, process_lock, stopped_processes, todo >>
    /\ MainFrame

\* MonitorPop that gives a dead id up: it is removed and never relaunched
MonitorPop_GivesUp ==
    /\ ~Replying
    /\ main_pc = "mon_loop"
    /\ managed_processes' = DictPop(managed_processes, Head(dead_server_ids))
    /\ info' = NoInfo
    /\ dead_server_ids' = Tail(dead_server_ids)
    /\ IF Tail(dead_server_ids) = <<>>
       THEN main_pc' = "sleep" /\ process_lock' = "free"
       ELSE UNCHANGED << main_pc, process_lock >>
    /\ procs' = Reap(procs, managed_processes', info')
    /\ UNCHANGED << stopped_processes, todo >>
    /\ MainFrame

\* lines 213-217 for the next dead id: pop it; a stopped id is done with
MonitorPop ==
    /\ ~Replying
    /\ main_pc = "mon_loop"
    /\ LET server_id == Head(dead_server_ids) IN
       /\ managed_processes' = DictPop(managed_processes, server_id)
       /\ IF server_id \notin DOMAIN stopped_processes
          THEN /\ info' = DictGet(managed_processes, server_id)
               /\ main_pc' = "mon_delay"
               /\ UNCHANGED << dead_server_ids, process_lock >>
          ELSE /\ info' = NoInfo
               /\ dead_server_ids' = Tail(dead_server_ids)
               /\ IF Tail(dead_server_ids) = <<>>
                  THEN main_pc' = "sleep" /\ process_lock' = "free"
                  ELSE UNCHANGED << main_pc, process_lock >>
    /\ procs' = Reap(procs, managed_processes', info')
    /\ UNCHANGED << stopped_processes, todo >>
    /\ MainFrame

\* MonitorRelaunch writing the start time of the entry it replaces
MonitorRelaunch_OldStamp ==
    /\ ~Replying
    /\ main_pc = "mon_delay"
    /\ LET server_id == Head(dead_server_ids)
           slept == Sleep(managed_processes, RESTART_DELAY_SECONDS)
       IN  \E new_proc \in BOOLEAN :
             IF new_proc
             THEN /\ managed_processes' = DictSet(slept, server_id,
                         Entry(NewProc(procs), info.command,
                               Earlier(info.start_time, RESTART_DELAY_SECONDS)))
                  /\ procs' = Reap(Popen(procs), managed_processes', NoInfo)
             ELSE /\ managed_processes' = slept
                  /\ procs' = Reap(procs, managed_processes', NoInfo)
    /\ info' = NoInfo
    /\ dead_server_ids' = Tail(dead_server_ids)
    /\ IF Tail(dead_server_ids) = <<>>
       THEN main_pc' = "sleep" /\ process_lock' = "free"
       ELSE main_pc' = "mon_loop" /\ UNCHANGED process_lock
    /\ UNCHANGED << stopped_processes, todo >>
    /\ MainFrame

\* MonitorRelaunch putting the dead entry back when the launch fails
MonitorRelaunch_KeepsDead ==
    /\ ~Replying
    /\ main_pc = "mon_delay"
    /\ LET server_id == Head(dead_server_ids)
           slept == Sleep(managed_processes, RESTART_DELAY_SECONDS)
       IN  \E new_proc \in BOOLEAN :
             IF new_proc
             THEN /\ managed_processes' = DictSet(slept, server_id,
                         Entry(NewProc(procs), info.command, Now))
                  /\ procs' = Reap(Popen(procs), managed_processes', NoInfo)
             ELSE /\ managed_processes' = DictSet(slept, server_id, info)
                  /\ procs' = Reap(procs, managed_processes', NoInfo)
    /\ info' = NoInfo
    /\ dead_server_ids' = Tail(dead_server_ids)
    /\ IF Tail(dead_server_ids) = <<>>
       THEN main_pc' = "sleep" /\ process_lock' = "free"
       ELSE main_pc' = "mon_loop" /\ UNCHANGED process_lock
    /\ UNCHANGED << stopped_processes, todo >>
    /\ MainFrame

\* lines 218-222: sleep the restart delay, still holding the lock, relaunch
MonitorRelaunch ==
    /\ ~Replying
    /\ main_pc = "mon_delay"
    /\ LET server_id == Head(dead_server_ids)
           slept == Sleep(managed_processes, RESTART_DELAY_SECONDS)
       IN  \E new_proc \in BOOLEAN :
             IF new_proc
             THEN /\ managed_processes' = DictSet(slept, server_id,
                         Entry(NewProc(procs), info.command, Now))
                  /\ procs' = Reap(Popen(procs), managed_processes', NoInfo)
             ELSE /\ managed_processes' = slept
                  /\ procs' = Reap(procs, managed_processes', NoInfo)
    /\ info' = NoInfo
    /\ dead_server_ids' = Tail(dead_server_ids)
    /\ IF Tail(dead_server_ids) = <<>>
       THEN main_pc' = "sleep" /\ process_lock' = "free"
       ELSE main_pc' = "mon_loop" /\ UNCHANGED process_lock
    /\ UNCHANGED << stopped_processes, todo >>
    /\ MainFrame

\* ---------------------------------------------------------- signal handler
\* the loop of lines 171-174 over the ids: pop each, terminate the live ones
RECURSIVE DrainAll(_, _)
DrainAll(managed, ps) ==
    IF managed = <<>> THEN ps
    ELSE LET proc_info == Head(managed).val
         IN  DrainAll(Tail(managed),
                      IF ~Exited(ps, proc_info.proc) THEN Terminate(ps, proc_info.proc) ELSE ps)

\* SIGTERM or SIGINT: the handler runs in the main thread, on top of whatever
\* main() is doing.  If main() holds process_lock, `with process_lock` of
\* line 170 waits for a lock its own thread holds, for ever.
Signal ==
    /\ ~Replying
    /\ main_pc \in {"boot", "init_loop", "sleep", "mon_loop", "mon_delay"}
    /\ IF process_lock = "main"
       THEN /\ main_pc' = "hung"
            /\ UNCHANGED << managed_processes, procs >>
       ELSE /\ main_pc' = "drained"
            /\ managed_processes' = <<>>
            /\ procs' = Reap(DrainAll(managed_processes, procs), <<>>, info)
    /\ UNCHANGED << stopped_processes, process_lock, todo, dead_server_ids, info >>
    /\ MainFrame

\* line 175
SignalRemoveSocket ==
    /\ ~Replying
    /\ main_pc = "drained"
    /\ main_pc' = "unlinked"
    /\ sock' = IF sock = "listening" THEN "removed" ELSE sock
    /\ UNCHANGED << configured_servers, managed_processes, stopped_processes,
                    process_lock, procs, todo, dead_server_ids, info, handlers,
                    call, ctl, conf >>

\* line 177
SignalExit ==
    /\ ~Replying
    /\ main_pc = "unlinked"
    /\ main_pc' = "exited"
    /\ UNCHANGED << configured_servers, managed_processes, stopped_processes,
                    process_lock, procs, todo, dead_server_ids, info, sock, handlers,
                    call, ctl, conf >>

\* --------------------------------------------------------------------- Next
Next ==
    \/ \E p \in DOMAIN procs : ProcExit(p)
    \/ SocketBind
    \/ \E i \in Handlers : HUnknown(i)
    \/ \E i \in Handlers, command \in {"start", "stop", "restart"}, server_id \in Payloads :
          HCheck(i, command, server_id)
    \/ \E i \in Handlers : HStop(i)
    \/ \E i \in Handlers : HStart(i)
    \/ \E i \in Handlers : HRestart(i)
    \/ \E i \in Handlers : HApplyLoad(i)
    \/ \E i \in Handlers : HApplySet(i)
    \/ \E i \in Handlers : HApplyLoop(i)
    \/ InitBegin
    \/ InitLaunchOne
    \/ MonitorScan
    \/ MonitorPop
    \/ MonitorRelaunch
    \/ \E i \in Handlers : HSend(i)
    \/ \E i \in Handlers : HExcept(i)

Spec == Init /\ [][Next]_vars

TypeOK ==
    /\ process_lock \in {"free", "main"}
    /\ DOMAIN procs \subseteq ProcHandles
    /\ main_pc \in {"boot", "init_loop", "sleep", "mon_loop", "mon_delay",
                    "hung", "drained", "unlinked", "exited"}
    /\ sock \in {"none", "listening", "removed"}
    /\ \A i \in Handlers :
         handlers[i].pc \in {"idle", "op", "apply_set", "apply_loop", "send", "except"}

\* ------------------------------------------------------------------ claims
\* the answer a handler is about to send, if one is
Answer(hs) ==
    IF \E i \in Handlers : hs[i].pc = "send"
    THEN hs[CHOOSE i \in Handlers : hs[i].pc = "send"].response
    ELSE NoResponse

\* the entries a Status taken in the given registry lists for sid
StatusOf(sid, configured, managed, stopped) ==
    LET list == StatusList(configured, managed, stopped)
    IN  { list[k] : k \in { j \in 1..Len(list) : list[j].id = sid } }

Running(sid) == DictHas(managed_processes, sid)
Marked(sid) == sid \in DOMAIN stopped_processes

\* C1: in every reachable state no ServerID is both in the running set
\* (managed_processes) and in the stopped-marker set (stopped_processes).
C1_RunningStoppedDisjoint == \A sid \in ServerIDs : ~(Running(sid) /\ Marked(sid))

\* C2: when Start(id) answers ok, then in the state in which the handler
\* releases the lock id is in the running set with the handle of a process
\* launched in this step and the timestamp of the launch, id has no stopped
\* marker, and a Status taken in that state lists id as Running with that PID.
C2_StartOk ==
    [][\A i \in Handlers :
         HStart(i) /\ Answer(handlers') = Response("ok", "has been started.")
         => LET sid == handlers[i].server_id IN
            /\ DictHas(managed_processes', sid)
            /\ DictGet(managed_processes', sid).proc \notin DOMAIN procs
            /\ procs'[DictGet(managed_processes', sid).proc] = "running"
            /\ DictGet(managed_processes', sid).start_time = Now
            /\ sid \notin DOMAIN stopped_processes'
            /\ \E e \in StatusOf(sid, configured_servers', managed_processes',
                                 stopped_processes') :
                 /\ e.status = "Running"
                 /\ e.pid = DictGet(managed_processes', sid).proc
                 /\ e.uptime = format_uptime(0)]_vars

\* a Start has just answered ok
C2_Started ==
    /\ Answer(handlers) = Response("ok", "has been started.")
    /\ \E sid \in ServerIDs :
         /\ Running(sid) /\ ~Marked(sid)
         /\ DictGet(managed_processes, sid).start_time = Now
         /\ procs[DictGet(managed_processes, sid).proc] = "running"
         /\ \E e \in StatusOf(sid, configured_servers, managed_processes,
                              stopped_processes) : e.status = "Running"

\* C3: when Stop(id) answers ok, then in that same step id's process is sent
\* the termination request, id leaves the running set and gets a stopped
\* marker, and a Status taken in the resulting state lists id as Stopped.
C3_StopOk ==
    [][\A i \in Handlers :
         HStop(i) /\ Answer(handlers') = Response("ok", "has been stopped.")
         => LET sid == handlers[i].server_id IN
            /\ Terminate(procs, DictGet(managed_processes, sid).proc)
                  [DictGet(managed_processes, sid).proc] # "running"
            /\ ~DictHas(managed_processes', sid)
            /\ sid \in DOMAIN stopped_processes'
            /\ \E e \in StatusOf(sid, configured_servers', managed_processes',
                                 stopped_processes') : e.status = "Stopped"]_vars

\* C4: the monitor goes on to relaunch a dead id only when the id has no
\* stopped marker, a dead id that has one is dropped without a launch, and a
\* stopped marker, once set, goes away only in a Start or an Apply.
C4_NoRelaunchOfStopped ==
    [][/\ MonitorRelaunch => Head(dead_server_ids) \notin DOMAIN stopped_processes
       /\ MonitorPop /\ Head(dead_server_ids) \in DOMAIN stopped_processes
             => /\ main_pc' # "mon_delay"
                /\ ~DictHas(managed_processes', Head(dead_server_ids))
                /\ DOMAIN procs' \subseteq DOMAIN procs
       /\ \A sid \in ServerIDs :
             sid \in DOMAIN stopped_processes /\ sid \notin DOMAIN stopped_processes'
             => \E i \in Handlers : HStart(i) \/ HApplyLoop(i)]_vars

\* the monitor has found dead an id that has a stopped marker
C4_DeadAndStopped ==
    /\ main_pc = "mon_loop"
    /\ Head(dead_server_ids) \in DOMAIN stopped_processes

\* The main thread is never starved for ever: its sleep ends, it gets the lock
\* when the lock is free often enough, and inside a loop it goes on.  A
\* handler that has its answer sends it.
\* The clients queue (at most one connection is being handled at any time: a
\* thread alone is in the second slot) and the configuration stays as loaded.
NextQueued ==
    /\ Next
    /\ handlers'[1] = IdleHandler
    /\ handlers'[2].pc # "apply_set"

FairSpec ==
    /\ Init /\ [][NextQueued]_vars
    /\ SF_vars(InitBegin) /\ SF_vars(InitLaunchOne)
    /\ SF_vars(MonitorScan) /\ SF_vars(MonitorPop) /\ SF_vars(MonitorRelaunch)
    /\ \A i \in Handlers : WF_vars(HSend(i)) /\ WF_vars(HExcept(i))

\* what each step of a monitor tick does with a dead id
C5_TickSteps ==
    /\ MonitorScan =>
          \A sid \in ServerIDs :
             Running(sid) /\ Exited(procs, DictGet(managed_processes, sid).proc)
             => /\ \E k \in 1..Len(dead_server_ids') : dead_server_ids'[k] = sid
                /\ main_pc' = "mon_loop" /\ process_lock' = "main"
    /\ MonitorPop =>
          LET sid == Head(dead_server_ids) IN
          /\ ~DictHas(managed_processes', sid)
          /\ ~Marked(sid) => /\ main_pc' = "mon_delay"
                             /\ info' = DictGet(managed_processes, sid)
    /\ MonitorRelaunch =>
          LET sid == Head(dead_server_ids) IN
          \/ /\ ~DictHas(managed_processes', sid)
             /\ DOMAIN procs' \subseteq DOMAIN procs
          \/ /\ DictHas(managed_processes', sid)
             /\ DictGet(managed_processes', sid).proc # info.proc
             /\ DictGet(managed_processes', sid).proc \notin DOMAIN procs
             /\ procs'[DictGet(managed_processes', sid).proc] = "running"
             /\ DictGet(managed_processes', sid).start_time = Now
             /\ DictGet(managed_processes', sid).command = info.command
             /\ \A other \in ServerIDs \ {sid} :
                   DictHas(managed_processes', other) =>
                      DictGet(managed_processes', other).start_time < Now
    /\ main_pc \in {"mon_loop", "mon_delay"} =>
          \/ MonitorPop \/ MonitorRelaunch
          \/ UNCHANGED << managed_processes, stopped_processes, main_pc,
                          dead_server_ids, info >>

\* sid is in the running set, has no stopped marker, and its process has exited
DeadUnmarked(sid) ==
    /\ Running(sid) /\ ~Marked(sid)
    /\ Exited(procs, DictGet(managed_processes, sid).proc)

\* the monitor is between two ticks
BetweenTicks == main_pc = "sleep" /\ process_lock = "free"

\* sid is not waiting for the monitor: stopped in the meantime, or dropped
\* after a failed launch, or running in a process that has not exited
Settled(sid) == ~DeadUnmarked(sid)

\* C5: when the process of a running id without stopped marker has exited,
\* the next monitor tick finds the id dead, removes it from the running set
\* and, when the launch succeeds, puts it back with the handle of a new
\* process, the command it had and the timestamp of the relaunch; no handler
\* changes the registry inside the tick; and the tick does come and end.
C5_MonitorRelaunches ==
    /\ [][C5_TickSteps]_vars
    /\ \A sid \in ServerIDs : DeadUnmarked(sid) ~> Settled(sid)
    /\ (main_pc \in {"mon_loop", "mon_delay"}) ~> BetweenTicks

\* the monitor has just relaunched a dead id, and its tick is over
C5_Relaunched ==
    /\ BetweenTicks
    /\ \E sid \in ServerIDs :
         /\ Running(sid) /\ ~Marked(sid)
         /\ DictGet(managed_processes, sid).start_time = Now
         /\ DictGet(managed_processes, sid).proc > 1
         /\ procs[DictGet(managed_processes, sid).proc] = "running"
         /\ \A i \in Handlers : handlers[i].pc = "idle"
         /\ \A other \in ServerIDs \ {sid} :
               Running(other) => DictGet(managed_processes, other).start_time < Now

\* C6: a Restart of id that answers ok is followed, once the process has
\* exited, by id leaving the running set and coming back with a later start
\* time: when Restart answers, id is running and has no stopped marker; the
\* monitor's removal of a dead id goes on to the relaunch; and the relaunch
\* writes a start time later than the one of the entry it replaces.
C6_RestartComesBack ==
    [][/\ \A i \in Handlers :
            HRestart(i) /\ Answer(handlers') = Response("ok", "Restart requested")
            => /\ DictHas(managed_processes', handlers[i].server_id)
               /\ handlers[i].server_id \notin DOMAIN stopped_processes'
       /\ MonitorPop => main_pc' = "mon_delay"
       /\ MonitorRelaunch /\ DictHas(managed_processes', Head(dead_server_ids))
            => DictGet(managed_processes', Head(dead_server_ids)).start_time
                  > Earlier(info.start_time, RESTART_DELAY_SECONDS)]_vars

\* C7, as the claim states it: Restart of a running id signals the process and
\* leaves id in neither the running set nor the stopped-marker set; Restart of
\* an id that is not configured, or not running, is refused.
C7_RestartLeavesAbsent ==
    [][\A i \in Handlers :
         /\ HRestart(i) /\ Answer(handlers') = Response("ok", "Restart requested")
            => /\ procs'[DictGet(managed_processes, handlers[i].server_id).proc] # "running"
               /\ ~DictHas(managed_processes', handlers[i].server_id)
               /\ handlers[i].server_id \notin DOMAIN stopped_processes'
         /\ HRestart(i) /\ ~DictHas(managed_processes, handlers[i].server_id)
            => Answer(handlers') = Response("error", "is not running.")
         /\ \A server_id \in Payloads :
              ~DictHas(configured_servers, server_id) /\ HCheck(i, "restart", server_id)
              => Answer(handlers') = Response("error", "is not a valid ID.")]_vars

\* C7, amended: Restart of a running id sends SIGTERM to its process (unless
\* the process has already exited) and leaves the registry as it is: id stays
\* in the running set with the entry it had, and no stopped marker is set.
\* Restart of an id that is not in the running set answers "is not running",
\* Restart of an id that is not configured answers "is not a valid ID", and
\* neither changes the registry or signals a process.
C7_RestartKeepsEntry ==
    [][\A i \in Handlers :
         /\ HRestart(i) /\ DictHas(managed_processes, handlers[i].server_id)
            => /\ Answer(handlers') = Response("ok", "Restart requested")
               /\ procs' = Terminate(procs, DictGet(managed_processes,
                                                    handlers[i].server_id).proc)
               /\ procs'[DictGet(managed_processes, handlers[i].server_id).proc]
                     # "running"
               /\ UNCHANGED << managed_processes, stopped_processes, configured_servers >>
         /\ HRestart(i) /\ ~DictHas(managed_processes, handlers[i].server_id)
            => /\ Answer(handlers') = Response("error", "is not running.")
               /\ UNCHANGED << managed_processes, stopped_processes, configured_servers,
                               procs >>
         /\ \A server_id \in Payloads :
              ~DictHas(configured_servers, server_id) /\ HCheck(i, "restart", server_id)
              => /\ Answer(handlers') = Response("error", "is not a valid ID.")
                 /\ UNCHANGED << managed_processes, stopped_processes,
                                 configured_servers, procs >>]_vars

\* a Restart has just answered ok: the id is still in the running set, its
\* process has been sent SIGTERM
C7_Restarted ==
    /\ Answer(handlers) = Response("ok", "Restart requested")
    /\ \E sid \in ServerIDs :
         /\ Running(sid) /\ ~Marked(sid)
         /\ procs[DictGet(managed_processes, sid).proc] = "signalled"

\* the ids an Apply step has put into the running set, and those it has tried
\* to launch in vain
ApplyStarted == DictKeys(managed_processes') \ DictKeys(managed_processes)
ApplyFailed(servers) == DictKeys(servers) \ DictKeys(managed_processes')

\* C8: Apply makes the configuration it has loaded the configured one, and
\* then launches every id of that configuration that is not running, after
\* clearing its stopped marker; when it answers, every id of the configuration
\* it loaded is running or counted as a failure, the started count is the
\* number of ids it added to the running set and the failure count the number
\* of launches that failed.
C8_ApplyLaunchesLoaded ==
    [][\A i \in Handlers :
         /\ HApplySet(i) => configured_servers' = handlers[i].servers
         /\ HApplyLoop(i)
            => /\ \A sid \in DictKeys(handlers[i].servers) :
                     \/ DictHas(managed_processes', sid)
                     \/ /\ sid \in ApplyFailed(handlers[i].servers)
                        /\ Answer(handlers').errors > 0
               /\ Answer(handlers').started = Cardinality(ApplyStarted)
               /\ Answer(handlers').errors
                     = Cardinality(DictKeys(configured_servers)
                                      \ DictKeys(managed_processes'))
               /\ \A sid \in DictKeys(handlers[i].servers) :
                     ~DictHas(managed_processes, sid)
                     => sid \notin DOMAIN stopped_processes'
               /\ ApplyStarted \subseteq DictKeys(handlers[i].servers)]_vars

\* C9: neither step of an Apply that writes to the registry touches an id
\* that is in the running set: its entry (process handle, command, start
\* time) is the same after the step, in the same place, and its process has
\* been sent nothing, whether or not the id is in the configuration the Apply
\* brings.
C9_ApplyKeepsRunning ==
    [][\A i \in Handlers :
         HApplySet(i) \/ HApplyLoop(i)
         => /\ \A k \in 1..Len(managed_processes) :
                 managed_processes'[k] = managed_processes[k]
            /\ \A p \in DOMAIN procs : procs'[p] = procs[p]]_vars

\* an Apply has just launched one id next to an older running id that the
\* configuration no longer has, and whose command it spells differently
C9_AppliedBesideRunning ==
    /\ Answer(handlers) = ApplyResponse(1, 0)
    /\ \E sid \in ServerIDs :
         /\ Running(sid)
         /\ DictGet(managed_processes, sid).start_time < Now
         /\ procs[DictGet(managed_processes, sid).proc] = "running"
         /\ ~DictHas(configured_servers, sid)

\* Status is asked for as well; the clients queue
NextWithStatus ==
    /\ Next \/ \E i \in Handlers : HStatus(i)
    /\ handlers'[1] = IdleHandler

StatusSpec == Init /\ [][NextWithStatus]_vars

\* C10: an Apply whose configuration lacks an id that is running neither
\* signals its process nor takes the id out of the running set, where it
\* stays with its entry; and every Status answered while the id is not
\* configured has no entry for it.
C10_OrphanRunsUnlisted ==
    [][\A i \in Handlers :
         /\ HApplySet(i) \/ HApplyLoop(i)
            => \A sid \in ServerIDs :
                  Running(sid) /\ ~DictHas(configured_servers', sid)
                  => /\ DictHas(managed_processes', sid)
                     /\ DictGet(managed_processes', sid) = DictGet(managed_processes, sid)
                     /\ procs'[DictGet(managed_processes, sid).proc]
                           = procs[DictGet(managed_processes, sid).proc]
         /\ HStatus(i)
            => \A sid \in ServerIDs \ DictKeys(configured_servers) :
                  \A k \in 1..Len(Answer(handlers').payload) :
                     Answer(handlers').payload[k].id # sid]_vars

\* a Status is being answered while a running id is not configured
C10_StatusWithOrphan ==
    /\ Answer(handlers).status = "ok"
    /\ Answer(handlers).payload # <<>>
    /\ \E sid \in ServerIDs :
         /\ Running(sid) /\ ~DictHas(configured_servers, sid)
         /\ procs[DictGet(managed_processes, sid).proc] = "running"

\* C11: the answer to a Status has one entry for each configured id, in the
\* order of the configuration, and no other; each entry is made from the
\* registry as it is in the one state in which Status holds the lock: Running
\* with the handle of the id's process and its uptime if the id is in the
\* running set, else Stopped if it has a stopped marker, else Idle, the last
\* two with neither PID nor uptime; and the entry carries the configured
\* command.
C11_StatusSnapshot ==
    [][\A i \in Handlers :
         HStatus(i)
         => LET list == Answer(handlers').payload IN
            /\ Answer(handlers').status = "ok"
            /\ Len(list) = Len(configured_servers)
            /\ \A k \in 1..Len(list) :
                 LET sid == configured_servers[k].key IN
                 /\ list[k].id = sid
                 /\ list[k].command = JoinSpace(configured_servers[k].val)
                 /\ IF DictHas(managed_processes, sid)
                    THEN /\ list[k].status = "Running"
                         /\ list[k].pid = DictGet(managed_processes, sid).proc
                         /\ list[k].uptime =
                               format_uptime(Now - DictGet(managed_processes, sid).start_time)
                    ELSE /\ list[k].status =
                               IF sid \in DOMAIN stopped_processes THEN "Stopped" ELSE "Idle"
                         /\ list[k].pid = "N/A"
                         /\ list[k].uptime = "N/A"
            /\ \A k, j \in 1..Len(list) : list[k].id = list[j].id => k = j]_vars

\* a Status is being answered that lists one id as Running, for a second now,
\* and the other as Stopped
C11_RunningAndStopped ==
    /\ Answer(handlers).status = "ok"
    /\ Len(Answer(handlers).payload) = 2
    /\ \E k, j \in 1..2 :
         /\ Answer(handlers).payload[k].status = "Running"
         /\ Answer(handlers).payload[k].uptime = format_uptime(1)
         /\ Answer(handlers).payload[j].status = "Stopped"

\* the answers that refuse a request
Refusals ==
    { Response("error", "is not a valid ID."),
      Response("error", "is already running."),
      Response("error", "is not running."),
      Response("error", "Unknown command.") }

\* the threads that are past the id check with an id that is missing, empty
\* or not in the given configuration
PastCheck(hs, configured) ==
    { j \in Handlers : hs[j].pc = "op" /\ ~DictHas(configured, hs[j].server_id) }

\* C12: a request that is refused changes nothing and signals nothing: the
\* step that ends in one of the four refusals leaves the running set, the
\* stopped markers, the configuration and every process as they were; and
\* the refusals are given where the claim says: Start of an id in the running
\* set is refused as already running, Stop or Restart of an id not in it
\* (stopped or idle) as not running, a command that is none of the five as
\* unknown, and no Start, Stop or Restart gets past the check with an id that
\* is missing, empty or not configured when it is checked.
C12_RefusalsChangeNothing ==
    [][/\ Answer(handlers') \in Refusals
          => UNCHANGED << managed_processes, stopped_processes, configured_servers,
                          procs >>
       /\ \A i \in Handlers :
            /\ HStart(i) /\ DictHas(managed_processes, handlers[i].server_id)
               => Answer(handlers') = Response("error", "is already running.")
            /\ HStop(i) /\ ~DictHas(managed_processes, handlers[i].server_id)
               => Answer(handlers') = Response("error", "is not running.")
            /\ HRestart(i) /\ ~DictHas(managed_processes, handlers[i].server_id)
               => Answer(handlers') = Response("error", "is not running.")
            /\ HUnknown(i) => Answer(handlers') = Response("error", "Unknown command.")
       /\ Cardinality(PastCheck(handlers', configured_servers))
             <= Cardinality(PastCheck(handlers, configured_servers))]_vars

\* a Stop of an id that is stopped already has just been refused
C12_StopOfStopped ==
    /\ Answer(handlers) = Response("error", "is not running.")
    /\ \E sid \in ServerIDs :
         /\ Marked(sid) /\ ~Running(sid) /\ DictHas(configured_servers, sid)
    /\ \E sid \in ServerIDs : Running(sid)

\* ---------------------------------------------------------------------- C13
\* one client at a time, sending any request at all: the five commands, an
\* unknown one, or bytes that are no JSON object
NextWithRequests ==
    /\ \/ Next
       \/ \E i \in Handlers : HStatus(i)
       \/ \E i \in Handlers : HBadRequest(i)
    /\ handlers'[1] = IdleHandler

RequestSpec == Init /\ [][NextWithRequests]_vars

\* C13: every handler that has read a non-empty request ends by writing one
\* response to its connection: none ends in the except clause, which closes
\* the connection without writing anything.
C13_EveryRequestAnswered == \A i \in Handlers : handlers[i].pc # "except"

\* ---------------------------------------------------------------------- C14
\* SIGTERM or SIGINT may arrive at any step of main(); one client at a time.
\* The signal itself is the environment's choice; once signal_handler runs,
\* its steps and the handlers' writes are taken whenever they can be.
NextWithSignal ==
    /\ \/ Next
       \/ Signal
       \/ SignalRemoveSocket
       \/ SignalExit
    /\ handlers'[1] = IdleHandler

ShutdownSpec ==
    /\ Init /\ [][NextWithSignal]_vars
    /\ SF_vars(SignalRemoveSocket) /\ SF_vars(SignalExit)
    /\ \A i \in Handlers : WF_vars(HSend(i)) /\ WF_vars(HExcept(i))

Signalled == main_pc \in {"hung", "drained", "unlinked", "exited"}

\* C14: once a termination signal has been delivered, whatever main() was
\* doing at that moment, the daemon eventually exits.
C14_SignalShutsDown == Signalled ~> main_pc = "exited"

\* ---------------------------------------------------------------------- C15
\* C15: no step reads or writes the registry without the lock.  The steps of
\* main() hold it from InitBegin or MonitorScan on; a handler step that holds
\* it runs from acquire to release, so it starts with the lock free.  The id
\* check of a start, stop or restart reads configured_servers: it, too, is
\* taken only when the lock is there to be had.
C15_RegistryUnderLock ==
    [][\A i \in Handlers, command \in {"start", "stop", "restart"}, server_id \in ServerIDs :
          HCheck(i, command, server_id) => process_lock = "free"]_vars

\* ---------------------------------------------------------------------- C16
\* the monitor is inside a tick that found dead processes
InTick == main_pc \in {"mon_loop", "mon_delay"}

\* C16: from the detection of the dead processes to the last relaunch of the
\* tick the monitor holds the lock, and no handler reads or changes the
\* registry meanwhile: no handler step changes the three structures, no
\* status is computed, and no start, stop or restart looks its id up in
\* configured_servers.
C16_MonitorTickExclusive ==
    [][InTick =>
         /\ process_lock = "main"
         /\ (main_pc' \in {"mon_loop", "mon_delay"} => process_lock' = "main")
         /\ (handlers' # handlers =>
               UNCHANGED << configured_servers, managed_processes, stopped_processes >>)
         /\ \A i \in Handlers : ~HStatus(i)
         /\ \A i \in Handlers, command \in {"start", "stop", "restart"},
               server_id \in ServerIDs : ~HCheck(i, command, server_id)]_vars

\* ---------------------------------------------------------------------- C17
\* C17: a relaunch by the monitor leaves the id either running in a new
\* process or, when the launch fails, in neither set, and the monitor goes on
\* with the rest of the tick; the monitor delays and launches only for an id
\* it has just taken out of the running set, so an id that is not running is
\* never launched by it; and an id that is not running enters the running set
\* only by a Start of that id, by an Apply, by the initial launch (which is
\* over before the first tick) or by the relaunch inside the tick that
\* removed it.
C17_FailedRelaunchStaysIdle ==
    [][/\ MonitorRelaunch =>
            LET sid == Head(dead_server_ids) IN
            /\ \/ /\ ~DictHas(managed_processes', sid)
                  /\ sid \notin DOMAIN stopped_processes'
               \/ /\ DictHas(managed_processes', sid)
                  /\ DictGet(managed_processes', sid).proc \notin DOMAIN procs
            /\ dead_server_ids' = Tail(dead_server_ids)
            /\ main_pc' = IF Tail(dead_server_ids) = <<>> THEN "sleep" ELSE "mon_loop"
       /\ main_pc # "mon_delay" /\ main_pc' = "mon_delay" =>
            /\ main_pc = "mon_loop"
            /\ Running(Head(dead_server_ids'))
       /\ MonitorScan =>
            \A k \in 1..Len(dead_server_ids') : Running(dead_server_ids'[k])
       /\ main_pc' = "init_loop" => main_pc \in {"boot", "init_loop"}
       /\ \A sid \in ServerIDs :
            ~Running(sid) /\ DictHas(managed_processes', sid) =>
               \/ \E i \in Handlers : /\ handlers[i].pc = "op"
                                      /\ handlers[i].command = "start"
                                      /\ handlers[i].server_id = sid
               \/ \E i \in Handlers : handlers[i].pc = "apply_loop"
               \/ main_pc = "init_loop"
               \/ main_pc = "mon_delay" /\ Head(dead_server_ids) = sid]_vars

\* an id is configured but in neither set while the monitor, in a tick, is
\* about to relaunch the other id
C17_IdleWhileOthersRestart ==
    /\ main_pc = "mon_delay" /\ process_lock = "main"
    /\ \E sid \in ServerIDs :
         /\ DictHas(configured_servers, sid) /\ ~Running(sid) /\ ~Marked(sid)
         /\ Head(dead_server_ids) # sid
         /\ \A i \in Handlers : handlers[i].pc = "idle"

\* ---------------------------------------------------------------------- C18
\* the monitor's relaunch step for sid
RelaunchOf(sid) == MonitorRelaunch /\ Head(dead_server_ids) = sid

\* C18: an id that is never stopped and whose process is found exited again
\* and again is relaunched again and again, without end: the monitor keeps
\* no count and never gives the id up.
C18_CrashLoopForever ==
    \A sid \in ServerIDs :
       ([]<>DeadUnmarked(sid) /\ []~Marked(sid)) => []<><<RelaunchOf(sid)>>_vars

\* the process the monitor has just launched for an id has exited already
C18_RelaunchedAndDeadAgain ==
    /\ BetweenTicks
    /\ \E sid \in ServerIDs :
         /\ DeadUnmarked(sid)
         /\ DictGet(managed_processes, sid).start_time = Now
         /\ DictGet(managed_processes, sid).proc > 1
         /\ \A other \in ServerIDs \ {sid} : ~Running(other)
         /\ \A i \in Handlers : handlers[i].pc = "idle"

\* ------------------------------------------- tools.py: send_command_to_manager
\* a tool calls send_command_to_manager(command, payload)
ClientCall(command, payload) ==
    /\ call.pc = "idle"
    /\ call' = [NoCall EXCEPT !.pc = "socket", !.command = command, !.payload = payload]
    /\ UNCHANGED ctl
    /\ ManagerFrame

\* lines 53-54: socket.socket(...), settimeout
ClientSocket ==
    /\ call.pc = "socket"
    /\ \E ok \in BOOLEAN :
         call' = IF ok THEN [call EXCEPT !.pc = "connect", !.sock = "open"]
                 ELSE Raise(call, "OSError")
    /\ UNCHANGED ctl
    /\ ManagerFrame

\* line 55: sock.connect(SOCKET_PATH)
ClientConnect ==
    /\ call.pc = "connect"
    /\ \E outcome \in {"ok", "socket.timeout", "ConnectionRefusedError",
                       "FileNotFoundError", "OSError"} :
         call' = IF outcome = "ok" THEN [call EXCEPT !.pc = "sendall"]
                 ELSE Raise(call, outcome)
    /\ UNCHANGED ctl
    /\ ManagerFrame

\* lines 57-65: build the request, send it in one sendall
ClientSendall ==
    /\ call.pc = "sendall"
    /\ \E outcome \in {"ok", "socket.timeout", "OSError"} :
         LET sent == [call EXCEPT !.request = Request(call.command, call.payload)]
         IN  call' = IF outcome = "ok" THEN [sent EXCEPT !.pc = "recv"]
                     ELSE Raise(sent, outcome)
    /\ UNCHANGED ctl
    /\ ManagerFrame

\* lines 67-78 for a recv that returns data
ClientRecv(chunk) ==
    /\ call.pc = "recv"
    /\ LET got == [call EXCEPT !.response_data = call.response_data \o chunk]
       IN  call' = IF Len(got.response_data) > MAX_BUFFER_SIZE THEN Raise(got, "ValueError")
                   ELSE IF JsonLoads(got.response_data) THEN [got EXCEPT !.pc = "loads"]
                   ELSE got
    /\ UNCHANGED ctl
    /\ ManagerFrame

\* lines 67-69: recv returns b"", the peer has closed the connection
ClientRecvEnd ==
    /\ call.pc = "recv"
    /\ call' = [call EXCEPT !.pc = "loads"]
    /\ UNCHANGED ctl
    /\ ManagerFrame

\* line 67: recv raises, on the timeout or on a broken connection
ClientRecvFail ==
    /\ call.pc = "recv"
    /\ \E exc \in {"socket.timeout", "OSError"} : call' = Raise(call, exc)
    /\ UNCHANGED ctl
    /\ ManagerFrame

\* lines 80-82: parse what was received and return it
ClientLoads ==
    /\ call.pc = "loads"
    /\ call' = IF JsonLoads(call.response_data)
               THEN Finally([call EXCEPT !.pc = "returned",
                                         !.result = Received(call.response_data)])
               ELSE Raise(call, "JSONDecodeError")
    /\ UNCHANGED ctl
    /\ ManagerFrame

ClientNext ==
    \/ \E command \in {"status", "start"}, payload \in {NoPayload, "", IdAB} :
          ClientCall(command, payload)
    \/ ClientSocket
    \/ ClientConnect
    \/ ClientSendall
    \/ \E chunk \in Chunks : ClientRecv(chunk)
    \/ ClientRecvEnd
    \/ ClientRecvFail
    \/ ClientLoads

ClientSpec == Init /\ [][ClientNext]_vars

\* ---------------------------------------------------------------------- C19
GenericError == ErrorResult("Failed to communicate with manager")

\* C19: send_command_to_manager never lets an exception out; whenever it has
\* returned, the socket it opened is closed and the result is the parsed
\* response or an error result: one message each for the read timeout, the
\* refused connection and the missing socket, and the generic error when the
\* peer closed without a parsable response or sent more than the buffer holds.
C19_ClientAlwaysReturns ==
    /\ call.pc # "raised"
    /\ call.sock = "open" => call.pc \in {"connect", "sendall", "recv", "loads"}
    /\ call.pc = "returned" =>
         /\ call.result # NoResult
         /\ call.exc = "socket.timeout" =>
               call.result = ErrorResult("Timeout communicating with manager")
         /\ call.exc = "ConnectionRefusedError" =>
               call.result = ErrorResult("MCP manager is not running")
         /\ call.exc = "FileNotFoundError" =>
               call.result = ErrorResult("MCP manager socket not found")
         /\ call.exc \in {"socket.timeout", "ConnectionRefusedError", "FileNotFoundError"} =>
               call.result # GenericError
         /\ call.exc = "JSONDecodeError" =>
               ~JsonLoads(call.response_data) /\ call.result = GenericError
         /\ Len(call.response_data) > MAX_BUFFER_SIZE =>
               call.exc = "ValueError" /\ call.result = GenericError
         /\ call.exc = "None" =>
               JsonLoads(call.response_data) /\ call.result = Received(call.response_data)

\* the peer closed the connection in the middle of its response
C19_ClosedMidResponse ==
    /\ call.pc = "returned" /\ call.sock = "closed"
    /\ call.response_data = << "{", "m" >>
    /\ call.result = GenericError

\* ----------------------------------------- tools.py: execute_systemctl_command
\* a tool calls execute_systemctl_command(operation, service_name); root is
\* os.geteuid() == 0, outcome what subprocess.run comes to if it is reached
Systemctl(operation, service_name, root, outcome) ==
    /\ ctl.pc = "idle"
    /\ ctl' = execute_systemctl_command(operation, service_name, root, outcome)
    /\ UNCHANGED call
    /\ ManagerFrame

\* the result has been handed to the caller
SystemctlDone ==
    /\ ctl.pc = "returned"
    /\ ctl' = NoCtl
    /\ UNCHANGED call
    /\ ManagerFrame

Operations == {"status", "start", "kill"}

SystemctlNext ==
    \/ \E operation \in Operations, service_name \in ServiceNames, root \in BOOLEAN,
          outcome \in RunOutcomes : Systemctl(operation, service_name, root, outcome)
    \/ SystemctlDone

SystemctlSpec == Init /\ [][SystemctlNext]_vars

\* ---------------------------------------------------------------------- C20
\* C20: execute_systemctl_command builds and runs a systemctl command line
\* only for an allow-listed operation and a service name that
\* validate_service_name accepts; otherwise it returns an error result and
\* runs nothing, and an operation that is not allowed is reported as such
\* whatever the name is.
C20_SystemctlOnlyWhenValid ==
    ctl.pc = "returned" =>
       /\ ctl.cmd # << >> =>
             /\ ctl.operation \in ALLOWED_SYSTEMCTL_OPERATIONS
             /\ validate_service_name(ctl.service_name)
             /\ SubSeq(ctl.cmd, Len(ctl.cmd) - 2, Len(ctl.cmd))
                   = << "systemctl", ctl.operation, ctl.service_name >>
       /\ ctl.operation \notin ALLOWED_SYSTEMCTL_OPERATIONS =>
             /\ ctl.cmd = << >>
             /\ ctl.result = ErrorResult("Operation not allowed")
       /\ ctl.operation \in ALLOWED_SYSTEMCTL_OPERATIONS
          /\ ~validate_service_name(ctl.service_name) =>
             /\ ctl.cmd = << >>
             /\ ctl.result = ErrorResult("Invalid service name")

\* a call with an operation that is not allowed and a name that is not valid
C20_BothRefused ==
    /\ ctl.pc = "returned"
    /\ ctl.operation \notin ALLOWED_SYSTEMCTL_OPERATIONS
    /\ ctl.service_name = << "a", "/", "." >>
    /\ ctl.result = ErrorResult("Operation not allowed")

\* ------------------------------------------------- load_servers_from_conf
\* the lines a configuration file is made of, and the files of up to
\* MaxLines lines
MaxLines == 3
ConfLines == {LineAB, LineQuoted, LineBA, LineNote, LineBlank}
ConfFiles == UNION { [1..n -> ConfLines] : n \in 0..MaxLines }

\* load_servers_from_conf() on a file that reads conf_file
Load(conf_file) ==
    /\ conf.pc = "idle"
    /\ process_lock = "free"
    /\ conf' = [pc |-> "loaded", file |-> conf_file, servers |-> ParseConf(conf_file)]
    /\ configured_servers' = ParseConf(conf_file)
    /\ UNCHANGED << managed_processes, stopped_processes, process_lock, procs, main_pc,
                    todo, dead_server_ids, info, sock, handlers, call, ctl >>

\* the function has returned
LoadDone ==
    /\ conf.pc = "loaded"
    /\ conf' = NoConf
    /\ UNCHANGED << configured_servers, managed_processes, stopped_processes,
                    process_lock, procs, main_pc, todo, dead_server_ids, info, sock,
                    handlers, call, ctl >>

LoadNext ==
    \/ \E conf_file \in ConfFiles : Load(conf_file)
    \/ LoadDone

LoadSpec == Init /\ [][LoadNext]_vars

\* ---------------------------------------------------------------------- C21
\* what a line is without its blanks
Ink(line) == SelectSeq(line, LAMBDA c : c # " ")
\* the lines that are neither blank nor a comment
CommandLines(file) ==
    { j \in 1..Len(file) : Ink(file[j]) # <<>> /\ Head(Ink(file[j])) # "#" }
Argv(line) == ShlexSplit(Strip(line))
LineId(line) == get_id_from_command(Argv(line))

\* C21: the mapping loaded from a file has exactly one entry for each id of
\* its command lines and none for comment and blank lines; two command lines
\* have the same id exactly when their space-joined argv is the same text
\* (so "a b" and "b a" differ); and the command of an entry is the argv of
\* the last line of that id.
C21_IdOfJoinedArgv ==
    conf.pc = "loaded" =>
       LET file == conf.file
           servers == conf.servers
           cmds == CommandLines(file)
       IN  /\ configured_servers = servers
           /\ DictKeys(servers) = { LineId(file[j]) : j \in cmds }
           /\ Len(servers) = Cardinality(DictKeys(servers))
           /\ \A j \in cmds, k \in cmds :
                 (LineId(file[j]) = LineId(file[k]))
                    <=> (JoinSpace(Argv(file[j])) = JoinSpace(Argv(file[k])))
           /\ \A j \in cmds :
                 (\A k \in cmds : k > j => LineId(file[k]) # LineId(file[j]))
                    => DictGet(servers, LineId(file[j])) = Argv(file[j])

\* a file in which a later line, with another argv, has the id of an earlier
\* one, followed by the reordered command
C21_LaterLineOfSameId ==
    /\ conf.pc = "loaded"
    /\ conf.file = << LineAB, LineQuoted, LineBA >>
    /\ Len(conf.servers) = 2
    /\ DictGet(conf.servers, IdAB) = Argv(LineQuoted)
    /\ Argv(LineQuoted) # Argv(LineAB)

\* ---------------------------------------------------------------------- C22
\* C22: the initial launch starts a process only for an id that is not in
\* the running set: it never replaces the entry, and so drops the handle, of
\* a process that a Start or an Apply has launched already.
C22_InitialLaunchNoOverwrite ==
    [][InitLaunchOne => ~DictHas(managed_processes, Head(todo).key)]_vars

\* ---------------------------------------------------------------------- C23
\* the signal handler has emptied the running set
Drained == main_pc \in {"drained", "unlinked", "exited"}

\* C23: once the signal handler has drained the running set, no process is
\* launched any more: every process the daemon holds a handle of has exited
\* or has been sent a termination request.
C23_NoLaunchAfterDrain ==
    Drained => \A p \in DOMAIN procs : procs[p] # "running"

\* ---------------------------------------------------------------------- C24
\* handler i is inside an Apply: it has read the file and not yet answered
ApplyInFlight(i) == handlers[i].pc \in {"apply_set", "apply_loop"}

\* C24: while an Apply is between reading the file and its answer, no step
\* of another handler changes the registry, and the configuration whose ids
\* the Apply launches and counts is the one it has read itself.
C24_ApplyAtomic ==
    [][\A i \in Handlers :
         /\ HApplyLoop(i) => configured_servers = handlers[i].servers
         /\ \A j \in Handlers \ {i} :
               /\ ApplyInFlight(i)
               /\ HStop(j) \/ HStart(j) \/ HRestart(j) \/ HApplySet(j) \/ HApplyLoop(j)
               => UNCHANGED << configured_servers, managed_processes,
                               stopped_processes >>]_vars

\* ---------------------------------------------------------------------- C25
LaunchError == Response("error", "Failed to start")

\* C25 as stated: a Start that fails to launch leaves the registry as it was,
\* stopped marker included, and an id that an Apply fails to launch keeps the
\* stopped marker it had.
C25_FailedLaunchKeepsMarker ==
    [][\A i \in Handlers :
         /\ HStart(i) /\ Answer(handlers') = LaunchError
            => UNCHANGED << managed_processes, stopped_processes >>
         /\ HApplyLoop(i)
            => \A sid \in DOMAIN stopped_processes :
                  ~DictHas(managed_processes', sid) => sid \in DOMAIN stopped_processes']_vars

\* C25, as the code has it: the stopped marker of the id is cleared before
\* the launch is tried.  After a Start that fails to launch, the id is in
\* neither set, every other marker and the running set are as before and no
\* process has been touched; after an Apply, no configured id that was not
\* running has a marker, launched or not, and the markers of all other ids
\* are as before.
C25_FailedLaunchClearsMarker ==
    [][\A i \in Handlers :
         /\ HStart(i) /\ Answer(handlers') = LaunchError
            => /\ stopped_processes' = StoppedPop(stopped_processes, handlers[i].server_id)
               /\ ~DictHas(managed_processes', handlers[i].server_id)
               /\ UNCHANGED << managed_processes, configured_servers, procs >>
         /\ HApplyLoop(i)
            => /\ \A sid \in DictKeys(configured_servers) :
                     ~DictHas(managed_processes, sid) => sid \notin DOMAIN stopped_processes'
               /\ \A sid \in DOMAIN stopped_processes :
                     DictHas(managed_processes, sid) \/ ~DictHas(configured_servers, sid)
                     => /\ sid \in DOMAIN stopped_processes'
                        /\ stopped_processes'[sid] = stopped_processes[sid]]_vars

\* a Start has just failed to launch: its id is configured and in neither
\* set, while the other id is stopped
C25_StartFailed ==
    /\ Answer(handlers) = LaunchError
    /\ \E sid \in ServerIDs :
         /\ DictHas(configured_servers, sid) /\ ~Running(sid) /\ ~Marked(sid)
         /\ \A other \in ServerIDs \ {sid} : Marked(other) /\ ~Running(other)

\* ---------------------------------------------------------------------- C26
\* sid is in the running set and not in the configuration
Orphan(sid) == Running(sid) /\ ~DictHas(configured_servers, sid)

\* C26: a start, stop or restart request for an orphaned id is answered
\* "is not a valid ID." and changes nothing; no handler step that leaves the
\* configuration as it is touches the entry or the process of an orphan; and
\* the monitor treats a dead orphan as any dead id: without stopped marker it
\* is removed, waited for and relaunched under its id with the command of
\* the entry removed.
C26_OrphanOutOfReach ==
    [][/\ \A i \in Handlers, command \in {"start", "stop", "restart"}, sid \in ServerIDs :
            Orphan(sid) /\ HCheck(i, command, sid)
            => /\ Answer(handlers') = Response("error", "is not a valid ID.")
               /\ UNCHANGED << configured_servers, managed_processes,
                               stopped_processes, procs >>
       /\ \A sid \in ServerIDs :
            Orphan(sid) /\ handlers' # handlers /\ UNCHANGED configured_servers
            => /\ DictHas(managed_processes', sid)
               /\ DictGet(managed_processes', sid) = DictGet(managed_processes, sid)
               /\ procs'[DictGet(managed_processes, sid).proc]
                     = procs[DictGet(managed_processes, sid).proc]
       /\ MonitorPop /\ Orphan(Head(dead_server_ids)) /\ ~Marked(Head(dead_server_ids))
            => /\ main_pc' = "mon_delay"
               /\ info' = DictGet(managed_processes, Head(dead_server_ids))
       /\ MonitorRelaunch /\ ~DictHas(configured_servers, Head(dead_server_ids))
          /\ DictHas(managed_processes', Head(dead_server_ids))
            => LET entry == DictGet(managed_processes', Head(dead_server_ids)) IN
               /\ entry.command = info.command
               /\ entry.start_time = Now
               /\ entry.proc # info.proc
               /\ procs'[entry.proc] = "running"]_vars

\* a request has just been refused for its id while the monitor, having
\* removed a dead id that is not configured, waits to relaunch it
C26_OrphanAwaitsRelaunch ==
    /\ main_pc = "mon_delay"
    /\ ~DictHas(configured_servers, Head(dead_server_ids))
    /\ info.command # <<>>
    /\ Answer(handlers) = Response("error", "is not a valid ID.")

\* ---------------------------------------------------------------------- C27
\* C27: a Status changes neither the registry nor any process, and it
\* reports a configured id of the running set as Running with the PID of its
\* entry also when that process has exited and the monitor has not yet
\* removed it.
C27_StatusReadOnly ==
    [][\A i \in Handlers :
         HStatus(i)
         => /\ UNCHANGED << configured_servers, managed_processes, stopped_processes,
                            procs, process_lock, main_pc, dead_server_ids, info >>
            /\ Answer(handlers').status = "ok"
            /\ \A sid \in DictKeys(configured_servers) :
                  Running(sid) /\ Exited(procs, DictGet(managed_processes, sid).proc)
                  => \E k \in 1..Len(Answer(handlers').payload) :
                        /\ Answer(handlers').payload[k].id = sid
                        /\ Answer(handlers').payload[k].status = "Running"
                        /\ Answer(handlers').payload[k].pid
                              = DictGet(managed_processes, sid).proc]_vars

\* a Status is being answered that lists as Running an id whose process has
\* exited
C27_DeadReportedRunning ==
    /\ Answer(handlers).status = "ok"
    /\ \E sid \in DictKeys(configured_servers) :
         /\ Running(sid)
         /\ Exited(procs, DictGet(managed_processes, sid).proc)
         /\ \E k \in 1..Len(Answer(handlers).payload) :
               /\ Answer(handlers).payload[k].id = sid
               /\ Answer(handlers).payload[k].status = "Running"

====
